---- MODULE Spec2Model ----
(***************************************************************************)
(* Fraud graph engine (src/phase3/fraud_engine.py, src/Risk_scorer.py).    *)
(*                                                                         *)
(* The pipeline  build_graph -> compute_scores  is modelled over the four  *)
(* input tables.  Account ids are the naturals 1..NumIds; the account      *)
(* table holds the ids 1..k, so a row that names an id above k refers to   *)
(* an id that is absent from the account table.  Scores that the code      *)
(* keeps as floats with one decimal are kept here as integers counting     *)
(* tenths (845 stands for 84.5); own_score stays a whole number.           *)
(* Attributes that no score depends on (holder, ring, city, lat, lon,      *)
(* amount, timestamp, colours) are left out of the records.                *)
(*                                                                         *)
(* Spec runs the pipeline on every small input snapshot, SpecClassify      *)
(* calls classify alone, SpecRerun runs full_pipeline twice on one         *)
(* snapshot with the set iteration order drawn afresh, SpecRings runs the  *)
(* pipeline on the reference dataset and on its ring designs, SpecReorder  *)
(* runs it on a snapshot and on the same rows in another order,            *)
(* SpecGraphs calls compute_scores on any small graph, and SpecScorers     *)
(* runs Risk_scorer.py and the engine on the same tables.                  *)
(***************************************************************************)
EXTENDS Integers, Sequences, FiniteSets, TLC

VARIABLES pc, accounts, identifiers, touchpoints, transactions, G, results,
          score, label, order, first_run, scorer

vars == <<pc, accounts, identifiers, touchpoints, transactions, G, results,
          score, label, order, first_run, scorer>>

----------------------------------------------------------------------------
(* Bounds of the model *)

NumIds == 3
MaxRows == 3
MaxTxn == 4
MaxScore == 1000
NumRing == 4
MaxEdges == 2
NumScorerIds == 7

(* Program constants *)

FLAG_WEIGHTS ==
    [ shared_device               |-> 30,
      shared_ip                   |-> 25,
      money_received_from_flagged |-> 20,
      money_sent_to_flagged       |-> 20,
      shared_touchpoint           |-> 15,
      transaction_loop            |-> 40,
      high_velocity               |-> 20 ]

\* dict order of THRESHOLDS; lo and hi in whole points
THRESHOLDS ==
    << [label |-> "CLEAN",      lo |-> 0,  hi |-> 30],
       [label |-> "WATCH",      lo |-> 31, hi |-> 60],
       [label |-> "SUSPICIOUS", lo |-> 61, hi |-> 90],
       [label |-> "BLOCK",      lo |-> 91, hi |-> 9999] >>

\* CONTAMINATION_WEIGHT = 0.30, in tenths
CONTAMINATION_WEIGHT == 3

\* len(cycle) >= 3
MinLoopLen == 3

\* send_counts >= 3
VelocityMin == 3

----------------------------------------------------------------------------
(* Input universes *)

Ids == 1..NumIds

IdentifierTypes == {"IP Address", "Device MAC", "IMEI"}

\* the identifier values and touchpoint ids the bounded tables draw from
IdentifierValues == <<"10.0.0.5", "MAC:EE:01">>

TouchpointIds == <<"ATM_CHN">>

Range(s) == {s[i] : i \in DOMAIN s}

IdentifierRows ==
    [account_id : Ids, identifier_type : IdentifierTypes,
     identifier_value : Range(IdentifierValues)]

TouchpointRows == [account_id : Ids, touchpoint_id : Range(TouchpointIds)]

TransactionRows == [sender : Ids, receiver : Ids]

----------------------------------------------------------------------------
(* The reference dataset of get_dataframes (the tables of Risk_scorer.py) *)

\* the account ids, numbered in the row order of the account table
ACC_A1 == 1

ACC_A2 == 2

ACC_A3 == 3

ACC_A4 == 4

ACC_B1 == 5

ACC_B2 == 6

ACC_B3 == 7

ACC_B4 == 8

ACC_C1 == 9

ACC_C2 == 10

ACC_C3 == 11

ACC_C4 == 12

ACC_D1 == 13

ACC_D2 == 14

ACC_D3 == 15

ACC_E1 == 16

ACC_E2 == 17

ACC_E3 == 18

ACC_F1 == 19

ACC_F2 == 20

ACC_F3 == 21

ACC_G1 == 22

ACC_G2 == 23

ACC_G3 == 24

accounts_data ==
    { ACC_A1, ACC_A2, ACC_A3, ACC_A4, ACC_B1, ACC_B2, ACC_B3, ACC_B4,
      ACC_C1, ACC_C2, ACC_C3, ACC_C4, ACC_D1, ACC_D2, ACC_D3, ACC_E1,
      ACC_E2, ACC_E3, ACC_F1, ACC_F2, ACC_F3, ACC_G1, ACC_G2, ACC_G3 }

identifiers_data ==
    << [account_id |-> ACC_A1, identifier_type |-> "IP Address",
        identifier_value |-> "192.168.1.1"],
       [account_id |-> ACC_A2, identifier_type |-> "IP Address",
        identifier_value |-> "192.168.1.1"],
       [account_id |-> ACC_A3, identifier_type |-> "Device MAC",
        identifier_value |-> "MAC:EE:01"],
       [account_id |-> ACC_A4, identifier_type |-> "Device MAC",
        identifier_value |-> "MAC:EE:01"],
       [account_id |-> ACC_B1, identifier_type |-> "IP Address",
        identifier_value |-> "10.0.0.5"],
       [account_id |-> ACC_B2, identifier_type |-> "IP Address",
        identifier_value |-> "10.0.0.5"],
       [account_id |-> ACC_B3, identifier_type |-> "Device MAC",
        identifier_value |-> "MAC:EE:03"],
       [account_id |-> ACC_B4, identifier_type |-> "Device MAC",
        identifier_value |-> "MAC:EE:03"],
       [account_id |-> ACC_C1, identifier_type |-> "IP Address",
        identifier_value |-> "172.16.0.3"],
       [account_id |-> ACC_C2, identifier_type |-> "IP Address",
        identifier_value |-> "172.16.0.3"],
       [account_id |-> ACC_C3, identifier_type |-> "Device MAC",
        identifier_value |-> "MAC:EE:02"],
       [account_id |-> ACC_C4, identifier_type |-> "Device MAC",
        identifier_value |-> "MAC:EE:02"],
       [account_id |-> ACC_D1, identifier_type |-> "IMEI",
        identifier_value |-> "IMEI-7766"],
       [account_id |-> ACC_A3, identifier_type |-> "IMEI",
        identifier_value |-> "IMEI-7766"],
       [account_id |-> ACC_D3, identifier_type |-> "IMEI",
        identifier_value |-> "IMEI-5544"],
       [account_id |-> ACC_C1, identifier_type |-> "IMEI",
        identifier_value |-> "IMEI-5544"],
       [account_id |-> ACC_D2, identifier_type |-> "IP Address",
        identifier_value |-> "10.0.1.8"],
       [account_id |-> ACC_B4, identifier_type |-> "IP Address",
        identifier_value |-> "10.0.1.8"],
       [account_id |-> ACC_E1, identifier_type |-> "IP Address",
        identifier_value |-> "203.0.113.10"],
       [account_id |-> ACC_E2, identifier_type |-> "IP Address",
        identifier_value |-> "203.0.113.20"],
       [account_id |-> ACC_E3, identifier_type |-> "IP Address",
        identifier_value |-> "203.0.113.30"],
       [account_id |-> ACC_F1, identifier_type |-> "IP Address",
        identifier_value |-> "198.51.100.1"],
       [account_id |-> ACC_F2, identifier_type |-> "IP Address",
        identifier_value |-> "198.51.100.2"],
       [account_id |-> ACC_F3, identifier_type |-> "IP Address",
        identifier_value |-> "198.51.100.3"],
       [account_id |-> ACC_G1, identifier_type |-> "IP Address",
        identifier_value |-> "10.2.0.99"],
       [account_id |-> ACC_G2, identifier_type |-> "IP Address",
        identifier_value |-> "10.2.0.99"],
       [account_id |-> ACC_G3, identifier_type |-> "IP Address",
        identifier_value |-> "10.2.0.99"] >>

touchpoints_data ==
    << [account_id |-> ACC_A1, touchpoint_id |-> "ATM_MUM"],
       [account_id |-> ACC_A2, touchpoint_id |-> "ATM_MUM"],
       [account_id |-> ACC_B1, touchpoint_id |-> "ATM_DEL"],
       [account_id |-> ACC_B3, touchpoint_id |-> "ATM_DEL"],
       [account_id |-> ACC_C1, touchpoint_id |-> "PORTAL_BLR"],
       [account_id |-> ACC_C2, touchpoint_id |-> "PORTAL_BLR"],
       [account_id |-> ACC_C3, touchpoint_id |-> "PORTAL_BLR"],
       [account_id |-> ACC_D1, touchpoint_id |-> "ATM_HYD"],
       [account_id |-> ACC_D2, touchpoint_id |-> "ATM_HYD"],
       [account_id |-> ACC_F1, touchpoint_id |-> "ATM_CHN"],
       [account_id |-> ACC_F2, touchpoint_id |-> "ATM_CHN"],
       [account_id |-> ACC_F3, touchpoint_id |-> "ATM_CHN"] >>

transactions_data ==
    << [sender |-> ACC_A1, receiver |-> ACC_A2],
       [sender |-> ACC_A2, receiver |-> ACC_A3],
       [sender |-> ACC_A3, receiver |-> ACC_A4],
       [sender |-> ACC_A4, receiver |-> ACC_A1],
       [sender |-> ACC_B1, receiver |-> ACC_B2],
       [sender |-> ACC_B2, receiver |-> ACC_B3],
       [sender |-> ACC_B3, receiver |-> ACC_B4],
       [sender |-> ACC_B4, receiver |-> ACC_B1],
       [sender |-> ACC_C1, receiver |-> ACC_C2],
       [sender |-> ACC_C2, receiver |-> ACC_C3],
       [sender |-> ACC_C3, receiver |-> ACC_C4],
       [sender |-> ACC_C4, receiver |-> ACC_C1],
       [sender |-> ACC_D1, receiver |-> ACC_D2],
       [sender |-> ACC_D2, receiver |-> ACC_D3],
       [sender |-> ACC_F1, receiver |-> ACC_F2],
       [sender |-> ACC_F2, receiver |-> ACC_F3],
       [sender |-> ACC_G1, receiver |-> ACC_G2],
       [sender |-> ACC_G2, receiver |-> ACC_G1],
       [sender |-> ACC_G2, receiver |-> ACC_G3],
       [sender |-> ACC_G3, receiver |-> ACC_G2] >>

\* every identifier value and touchpoint id of the model, in the sorted
\* order in which groupby yields its groups
AllIdentifierValues ==
    << "10.0.0.5", "10.0.1.8", "10.2.0.99", "172.16.0.3", "192.168.1.1",
       "198.51.100.1", "198.51.100.2", "198.51.100.3", "203.0.113.10",
       "203.0.113.20", "203.0.113.30", "IMEI-5544", "IMEI-7766",
       "MAC:EE:01", "MAC:EE:02", "MAC:EE:03" >>

AllTouchpointIds ==
    << "ATM_CHN", "ATM_DEL", "ATM_HYD", "ATM_MUM", "PORTAL_BLR" >>

----------------------------------------------------------------------------
(* build_graph *)

Edge(a, b, t, k) == [u |-> a, v |-> b, edge_type |-> t, txn |-> k]

\* itertools.combinations(accs, 2): the pairs <<accs[i], accs[j]>>, i < j,
\* in lexicographic order of the positions
\* the group expanded as a chain: every member paired with the next one only
combinations_chain(accs) ==
    [j \in 1..(Len(accs) - 1) |-> <<accs[j], accs[j + 1]>>]

RECURSIVE combinations(_)
combinations(accs) ==
    IF Len(accs) < 2 THEN << >>
    ELSE [j \in 1..(Len(accs) - 1) |-> <<accs[1], accs[j + 1]>>]
         \o combinations(Tail(accs))

\* the a -> b edge alone, as the phase-1 sketch adds it
PairEdgesOneWay(accs, t) ==
    LET c == combinations(accs)
    IN  [k \in 1..Len(c) |-> Edge(c[k][1], c[k][2], t, 0)]

\* for a, b in combinations(accs, 2): add_edge(a, b); add_edge(b, a)
PairEdges(accs, t) ==
    LET c == combinations(accs)
    IN  [k \in 1..(2 * Len(c)) |->
            IF k % 2 = 1 THEN Edge(c[(k + 1) \div 2][1], c[(k + 1) \div 2][2], t, 0)
                         ELSE Edge(c[k \div 2][2], c[k \div 2][1], t, 0)]

\* rows[rows[col] == key]["account_id"] as a list, in row order
RECURSIVE GroupAccounts(_, _, _)
GroupAccounts(rows, col, key) ==
    IF rows = << >> THEN << >>
    ELSE (IF Head(rows)[col] = key THEN <<Head(rows).account_id>> ELSE << >>)
         \o GroupAccounts(Tail(rows), col, key)

\* rows.groupby(col)["account_id"].apply(list), then the pair loop over
\* every group: the groups come in the sorted order of their keys
RECURSIVE GroupEdges(_, _, _, _)
GroupEdges(rows, col, keys, t) ==
    IF keys = << >> THEN << >>
    ELSE PairEdges(GroupAccounts(rows, col, Head(keys)), t)
         \o GroupEdges(rows, col, Tail(keys), t)

IsIpRow(r) == r.identifier_type = "IP Address"

IsDeviceRow(r) == r.identifier_type \in {"Device MAC", "IMEI"}

\* the keys of rows.groupby(col), in sorted order
GroupKeys(rows, col, sorted) ==
    SelectSeq(sorted, LAMBDA key : \E i \in DOMAIN rows : rows[i][col] = key)

SharedIpEdges(idents) ==
    LET rows == SelectSeq(idents, IsIpRow)
    IN  GroupEdges(rows, "identifier_value",
                   GroupKeys(rows, "identifier_value", AllIdentifierValues),
                   "shared_ip")

SharedDeviceEdges(idents) ==
    LET rows == SelectSeq(idents, IsDeviceRow)
    IN  GroupEdges(rows, "identifier_value",
                   GroupKeys(rows, "identifier_value", AllIdentifierValues),
                   "shared_device")

SharedTouchpointEdges(tps) ==
    GroupEdges(tps, "touchpoint_id",
               GroupKeys(tps, "touchpoint_id", AllTouchpointIds),
               "shared_touchpoint")

\* every transaction also added in the reverse direction, as the shared
\* edges are
MoneyFlowEdgesBothWays(txns) ==
    [k \in 1..(2 * Len(txns)) |->
        IF k % 2 = 1
        THEN Edge(txns[(k + 1) \div 2].sender, txns[(k + 1) \div 2].receiver,
                  "money_flow", (k + 1) \div 2)
        ELSE Edge(txns[k \div 2].receiver, txns[k \div 2].sender,
                  "money_flow", k \div 2)]

MoneyFlowEdges(txns) ==
    [k \in 1..Len(txns) |->
        Edge(txns[k].sender, txns[k].receiver, "money_flow", k)]

\* The MultiDiGraph: its edges in insertion order, and its nodes with their
\* node_type attribute.  add_edge creates a missing endpoint as a node
\* without attributes ("" stands for the missing node_type).
build_graph(accs, idents, tps, txns) ==
    LET edges == SharedIpEdges(idents) \o SharedDeviceEdges(idents)
                 \o SharedTouchpointEdges(tps) \o MoneyFlowEdges(txns)
        ends  == {edges[i].u : i \in DOMAIN edges}
                 \cup {edges[i].v : i \in DOMAIN edges}
    IN  [ nodes |-> [n \in accs \cup ends |->
                        IF n \in accs THEN "account" ELSE ""],
          edges |-> edges ]

EmptyGraph == [nodes |-> << >>, edges |-> << >>]

----------------------------------------------------------------------------
(* _detect_loops *)

\* edges of every type taken into money_graph
MoneyGraphAnyType(g, account_ids) ==
    {<<g.edges[i].u, g.edges[i].v>> : i \in
        {j \in DOMAIN g.edges :
            /\ g.edges[j].u \in account_ids
            /\ g.edges[j].v \in account_ids}}

\* money_graph: a DiGraph, so parallel money_flow edges collapse into one
MoneyGraph(g, account_ids) ==
    {<<g.edges[i].u, g.edges[i].v>> : i \in
        {j \in DOMAIN g.edges :
            /\ g.edges[j].edge_type = "money_flow"
            /\ g.edges[j].u \in account_ids
            /\ g.edges[j].v \in account_ids}}

GraphNodes(E) == {e[1] : e \in E} \cup {e[2] : e \in E}

\* the paths of P extended by one edge of E to a node that is not yet on
\* the path and lies above the path's first node
ExtendPaths(E, P) ==
    {Append(x[1], x[2][2]) :
        x \in {y \in P \X E :
                  /\ y[2][1] = y[1][Len(y[1])]
                  /\ y[2][2] > y[1][1]
                  /\ \A i \in DOMAIN y[1] : y[1][i] # y[2][2]}}

\* the paths of P and their extensions by up to n - 1 edges
RECURSIVE PathsUpTo(_, _, _)
PathsUpTo(E, P, n) ==
    IF n = 0 \/ P = {} THEN {}
    ELSE P \cup PathsUpTo(E, ExtendPaths(E, P), n - 1)

\* nx.simple_cycles: every elementary cycle once, as the list of its nodes
\* (here rotated to start at its least node): the simple paths from a node
\* through greater nodes whose last node has an edge back to the first; a
\* self-loop is a cycle of one node
simple_cycles(E) ==
    LET N == GraphNodes(E)
    IN  {c \in PathsUpTo(E, {<<n>> : n \in N}, Cardinality(N)) :
            <<c[Len(c)], c[1]>> \in E}

\* two-node cycles counted as loops
_detect_loops_from_two(g, account_ids) ==
    UNION { Range(cycle) :
            cycle \in {c \in simple_cycles(MoneyGraph(g, account_ids)) :
                          Len(c) >= 2} }

\* only the cycles of exactly three nodes counted as loops
_detect_loops_exactly_three(g, account_ids) ==
    UNION { Range(cycle) :
            cycle \in {c \in simple_cycles(MoneyGraph(g, account_ids)) :
                          Len(c) = MinLoopLen} }

_detect_loops(g, account_ids) ==
    UNION { Range(cycle) :
            cycle \in {c \in simple_cycles(MoneyGraph(g, account_ids)) :
                          Len(c) >= MinLoopLen} }

----------------------------------------------------------------------------
(* classify: score in tenths *)

RECURSIVE classifyFrom(_, _)
classifyFrom(s, ths) ==
    IF ths = << >> THEN "BLOCK"
    ELSE IF 10 * Head(ths).lo <= s /\ s <= 10 * Head(ths).hi
         THEN Head(ths).label
         ELSE classifyFrom(s, Tail(ths))

\* the upper bound of every range taken as exclusive
RECURSIVE classifyExclusive(_, _)
classifyExclusive(s, ths) ==
    IF ths = << >> THEN "BLOCK"
    ELSE IF 10 * Head(ths).lo <= s /\ s < 10 * Head(ths).hi
         THEN Head(ths).label
         ELSE classifyExclusive(s, Tail(ths))

classify_exclusive(s) == classifyExclusive(s, THRESHOLDS)

classify(s) == classifyFrom(s, THRESHOLDS)

----------------------------------------------------------------------------
(* compute_scores *)

\* G.edges(acc) / G.out_edges(acc) and G.in_edges(acc), as edge positions
OutEdges(g, acc) == {i \in DOMAIN g.edges : g.edges[i].u = acc}

InEdges(g, acc) == {i \in DOMAIN g.edges : g.edges[i].v = acc}

\* etc[t]: the out-edges and the in-edges of acc of edge type t
etc(g, acc, t) ==
    Cardinality({i \in OutEdges(g, acc) : g.edges[i].edge_type = t})
    + Cardinality({i \in InEdges(g, acc) : g.edges[i].edge_type = t})

\* the in-edges counted whatever their edge type
in_money_any_type(g, acc) == Cardinality(InEdges(g, acc))

\* len(in_money), len(out_money)
in_money(g, acc) ==
    Cardinality({i \in InEdges(g, acc) : g.edges[i].edge_type = "money_flow"})

out_money(g, acc) ==
    Cardinality({i \in OutEdges(g, acc) : g.edges[i].edge_type = "money_flow"})

\* transactions.groupby("sender").size()
send_counts(txns, s) == Cardinality({k \in DOMAIN txns : txns[k].sender = s})

\* more than 3 rather than at least 3
high_velocity_strict(txns) ==
    {s \in {txns[k].sender : k \in DOMAIN txns} :
        send_counts(txns, s) > VelocityMin}

high_velocity_senders(txns) ==
    {s \in {txns[k].sender : k \in DOMAIN txns} :
        send_counts(txns, s) >= VelocityMin}

\* one entry of the flags list; txns is the count the flag text carries
\* ("Received money (2 txn)"), 0 for a flag whose text carries none
Flag(name, n, w) == [flag |-> name, txns |-> n, weight |-> w]

FlagIf(cond, name, n, w) == IF cond THEN <<Flag(name, n, w)>> ELSE << >>

AddIf(cond, w) == IF cond THEN w ELSE 0

\* the flags list of one account, in the order the code appends
flags_of(g, txns, loop_accounts, acc) ==
    FlagIf(etc(g, acc, "shared_ip") > 0, "Shared IP Address", 0,
           FLAG_WEIGHTS.shared_ip)
    \o FlagIf(etc(g, acc, "shared_device") > 0, "Shared Device / IMEI", 0,
              FLAG_WEIGHTS.shared_device)
    \o FlagIf(etc(g, acc, "shared_touchpoint") > 0, "Shared ATM / Portal", 0,
              FLAG_WEIGHTS.shared_touchpoint)
    \o FlagIf(in_money(g, acc) > 0, "Received money", in_money(g, acc),
              FLAG_WEIGHTS.money_received_from_flagged)
    \o FlagIf(out_money(g, acc) > 0, "Sent money", out_money(g, acc),
              FLAG_WEIGHTS.money_sent_to_flagged)
    \o FlagIf(acc \in loop_accounts, "Transaction Loop Detected", 0,
              FLAG_WEIGHTS.transaction_loop)
    \o FlagIf(acc \in high_velocity_senders(txns), "High Velocity Sending", 0,
              FLAG_WEIGHTS.high_velocity)

\* the sent-money weight looked up under the wrong key of FLAG_WEIGHTS
own_score_wrong_key(g, txns, loop_accounts, acc) ==
    AddIf(etc(g, acc, "shared_ip") > 0, FLAG_WEIGHTS.shared_ip)
    + AddIf(etc(g, acc, "shared_device") > 0, FLAG_WEIGHTS.shared_device)
    + AddIf(etc(g, acc, "shared_touchpoint") > 0, FLAG_WEIGHTS.shared_touchpoint)
    + AddIf(in_money(g, acc) > 0, FLAG_WEIGHTS.money_received_from_flagged)
    + AddIf(out_money(g, acc) > 0, FLAG_WEIGHTS.transaction_loop)
    + AddIf(acc \in loop_accounts, FLAG_WEIGHTS.transaction_loop)
    + AddIf(acc \in high_velocity_senders(txns), FLAG_WEIGHTS.high_velocity)

\* score, as the code accumulates it beside the flags list
own_score_of(g, txns, loop_accounts, acc) ==
    AddIf(etc(g, acc, "shared_ip") > 0, FLAG_WEIGHTS.shared_ip)
    + AddIf(etc(g, acc, "shared_device") > 0, FLAG_WEIGHTS.shared_device)
    + AddIf(etc(g, acc, "shared_touchpoint") > 0, FLAG_WEIGHTS.shared_touchpoint)
    + AddIf(in_money(g, acc) > 0, FLAG_WEIGHTS.money_received_from_flagged)
    + AddIf(out_money(g, acc) > 0, FLAG_WEIGHTS.money_sent_to_flagged)
    + AddIf(acc \in loop_accounts, FLAG_WEIGHTS.transaction_loop)
    + AddIf(acc \in high_velocity_senders(txns), FLAG_WEIGHTS.high_velocity)

\* the successors alone
nbrs_successors_only(g, account_ids, acc) ==
    {g.edges[i].v : i \in {j \in OutEdges(g, acc) : g.edges[j].v \in account_ids}}

\* nbrs: the account ids among the successors and the predecessors of acc
nbrs(g, account_ids, acc) ==
    {g.edges[i].v : i \in {j \in OutEdges(g, acc) : g.edges[j].v \in account_ids}}
    \cup
    {g.edges[i].u : i \in {j \in InEdges(g, acc) : g.edges[j].u \in account_ids}}

RECURSIVE SumOver(_, _)
SumOver(f, S) ==
    IF S = {} THEN 0
    ELSE LET x == CHOOSE y \in S : TRUE IN f[x] + SumOver(f, S \ {x})

\* round(num / den, 1) in tenths, num / den being a count of tenths.
\* Python rounds the double to the nearest tenth and an exact half to the
\* even tenth.  With own scores that are multiples of 5 and at most 5
\* neighbours, 0.30 * (sum / n) is a double that lies on a half only where
\* 3 * sum / n does, so the integer rule gives the float's result.
round1(num, den) ==
    LET q == num \div den
        r == num % den
    IN  IF 2 * r > den THEN q + 1
        ELSE IF 2 * r < den THEN q
        ELSE IF q % 2 = 0 THEN q ELSE q + 1

\* The sums of 6 own scores for which the double 0.30 * (sum / 6) lies just
\* below the half that 3 * sum / 6 lies on (0.3 * (155 / 6) is
\* 7.749999999999999): round(..., 1) then gives the lower tenth.  With 7 or
\* 8 neighbours, as with 5 or fewer, no sum does so.
HalfFallsBelow(sum, n) ==
    /\ n = 6
    /\ sum \in {35, 55, 155, 235, 295, 395, 455, 515, 575, 635, 775, 835,
                895, 955, 1015}

\* round(CONTAMINATION_WEIGHT * (sum / n), 1) in tenths
round_contamination(sum, n) ==
    IF HalfFallsBelow(sum, n) THEN (CONTAMINATION_WEIGHT * sum) \div n
    ELSE round1(CONTAMINATION_WEIGHT * sum, n)

\* the mean taken with floor division (sum // len)
contamination_floor_mean(own_scores, ns) ==
    IF ns = {} THEN 0
    ELSE round1(CONTAMINATION_WEIGHT
                * (SumOver(own_scores, ns) \div Cardinality(ns)), 1)

\* round(CONTAMINATION_WEIGHT * (sum(own_scores[n] for n in nbrs) / len(nbrs)), 1)
\* if nbrs else 0.0, in tenths
contamination_of(own_scores, ns) ==
    IF ns = {} THEN 0
    ELSE round_contamination(SumOver(own_scores, ns), Cardinality(ns))

\* the contamination subtracted
final_minus(own, contamination) == 10 * own - contamination

\* round(own_scores[acc] + contamination, 1), in tenths: the sum of a whole
\* number and a one-decimal double rounds to the tenth it stands for
final_of(own, contamination) == 10 * own + contamination

\* the score table built over every node of the graph instead of over the
\* account table
compute_scores_all_nodes(g, accs, txns) ==
    LET account_ids   == accs \cup DOMAIN g.nodes
        loop_accounts == _detect_loops(g, account_ids)
        own_scores    == [a \in account_ids |->
                             own_score_of(g, txns, loop_accounts, a)]
        flag_details  == [a \in account_ids |->
                             flags_of(g, txns, loop_accounts, a)]
    IN  [acc \in account_ids |->
            LET contamination ==
                    contamination_of(own_scores, nbrs(g, account_ids, acc))
                final == final_of(own_scores[acc], contamination)
            IN  [ own_score      |-> own_scores[acc],
                  contamination  |-> contamination,
                  final_score    |-> final,
                  classification |-> classify(final),
                  flags          |-> flag_details[acc],
                  in_loop        |-> acc \in loop_accounts ]]

compute_scores(g, accs, txns) ==
    LET account_ids   == accs
        loop_accounts == _detect_loops(g, account_ids)
        own_scores    == [a \in account_ids |->
                             own_score_of(g, txns, loop_accounts, a)]
        flag_details  == [a \in account_ids |->
                             flags_of(g, txns, loop_accounts, a)]
    IN  [acc \in account_ids |->
            LET contamination ==
                    contamination_of(own_scores, nbrs(g, account_ids, acc))
                final == final_of(own_scores[acc], contamination)
            IN  [ own_score      |-> own_scores[acc],
                  contamination  |-> contamination,
                  final_score    |-> final,
                  classification |-> classify(final),
                  flags          |-> flag_details[acc],
                  in_loop        |-> acc \in loop_accounts ]]

----------------------------------------------------------------------------
(* The pipeline: build_graph, then compute_scores on the same tables *)

\* the sequences over S of length n
SeqsOfLen(S, n) == [1..n -> S]

\* The input snapshot: the account table holds the ids 1..k; the other
\* three tables hold up to MaxRows rows between them, or the transaction
\* table alone holds up to MaxTxn rows.
Init ==
    /\ pc = "start"
    /\ accounts \in {1..k : k \in 0..NumIds}
    /\ \E i, j \in 0..MaxRows, k \in 0..MaxTxn :
          /\ \/ i + j + k <= MaxRows
             \/ i = 0 /\ j = 0
          /\ identifiers \in SeqsOfLen(IdentifierRows, i)
          /\ touchpoints \in SeqsOfLen(TouchpointRows, j)
          /\ transactions \in SeqsOfLen(TransactionRows, k)
    /\ G = EmptyGraph
    /\ results = << >>
    /\ score = 0
    /\ label = ""
    /\ order = << >>
    /\ first_run = << >>
    /\ scorer = << >>

BuildGraph ==
    /\ pc = "start"
    /\ G' = build_graph(accounts, identifiers, touchpoints, transactions)
    /\ pc' = "built"
    /\ UNCHANGED <<accounts, identifiers, touchpoints, transactions, results,
                   score, label, order, first_run, scorer>>

ComputeScores ==
    /\ pc = "built"
    /\ results' = compute_scores(G, accounts, transactions)
    /\ pc' = "scored"
    /\ UNCHANGED <<accounts, identifiers, touchpoints, transactions, G,
                   score, label, order, first_run, scorer>>

Next == BuildGraph \/ ComputeScores

Spec == Init /\ [][Next]_vars

----------------------------------------------------------------------------
(* classify called on its own, on any one-decimal score *)

\* scores around and above the upper bound 9999 of the BLOCK range
LargeScores == {99980, 99989, 99990, 99991, 99999, 100000, 100001, 123456}

ScoreInputs == (0..MaxScore) \cup LargeScores

InitClassify ==
    /\ pc = "call"
    /\ score \in ScoreInputs
    /\ label = ""
    /\ accounts = {}
    /\ identifiers = << >>
    /\ touchpoints = << >>
    /\ transactions = << >>
    /\ G = EmptyGraph
    /\ results = << >>
    /\ order = << >>
    /\ first_run = << >>
    /\ scorer = << >>

Classify ==
    /\ pc = "call"
    /\ label' = classify(score)
    /\ pc' = "returned"
    /\ UNCHANGED <<accounts, identifiers, touchpoints, transactions, G,
                   results, score, order, first_run, scorer>>

NextClassify == Classify

SpecClassify == InitClassify /\ [][NextClassify]_vars

----------------------------------------------------------------------------
(* full_pipeline run twice on one input snapshot *)

\* The orders in which a set of account ids can be iterated: Python iterates
\* a set of strings in hash order, which differs from one process to the
\* next.
Perms(S) ==
    {p \in [1..Cardinality(S) -> S] : \A i, j \in DOMAIN p : i # j => p[i] # p[j]}

\* sum(own_scores[n] for n in nbrs), the set nbrs yielding its members in
\* the order ord
RECURSIVE SumInOrder(_, _, _, _)
SumInOrder(f, S, ord, acc) ==
    IF ord = << >> THEN acc
    ELSE SumInOrder(f, S, Tail(ord),
                    IF Head(ord) \in S THEN acc + f[Head(ord)] ELSE acc)

\* the own score of the neighbour the set yields first, instead of the mean
contamination_first_in_order(own_scores, ns, ord) ==
    IF ns = {} THEN 0
    ELSE LET first == CHOOSE i \in DOMAIN ord :
                          /\ ord[i] \in ns
                          /\ \A j \in 1..(i - 1) : ord[j] \notin ns
         IN  round1(CONTAMINATION_WEIGHT * own_scores[ord[first]], 1)

\* contamination, the neighbours summed in iteration order
contamination_in_order(own_scores, ns, ord) ==
    IF ns = {} THEN 0
    ELSE round_contamination(SumInOrder(own_scores, ns, ord, 0),
                             Cardinality(ns))

\* one pass over the accounts in the order ord: a neighbour processed
\* earlier contributes its final score, a later one its own score
compute_scores_one_pass(g, accs, txns, ord) ==
    LET account_ids   == accs
        loop_accounts == _detect_loops(g, account_ids)
        own_scores    == [a \in account_ids |->
                             own_score_of(g, txns, loop_accounts, a)]
        flag_details  == [a \in account_ids |->
                             flags_of(g, txns, loop_accounts, a)]
        pos(a)        == CHOOSE i \in DOMAIN ord : ord[i] = a
        staged(a)     == final_of(own_scores[a],
                                  contamination_of(own_scores,
                                                   nbrs(g, account_ids, a)))
    IN  [acc \in account_ids |->
            LET ns   == nbrs(g, account_ids, acc)
                seen == [n \in account_ids |->
                            IF pos(n) < pos(acc) THEN staged(n)
                            ELSE 10 * own_scores[n]]
                contamination ==
                    IF ns = {} THEN 0
                    ELSE round1(CONTAMINATION_WEIGHT * SumOver(seen, ns),
                                10 * Cardinality(ns))
                final == final_of(own_scores[acc], contamination)
            IN  [ own_score      |-> own_scores[acc],
                  contamination  |-> contamination,
                  final_score    |-> final,
                  classification |-> classify(final),
                  flags          |-> flag_details[acc],
                  in_loop        |-> acc \in loop_accounts ]]

\* compute_scores with the iteration order of its sets made explicit; the
\* score table is a dict, which compares equal whatever its insertion order
compute_scores_in_order(g, accs, txns, ord) ==
    LET account_ids   == accs
        loop_accounts == _detect_loops(g, account_ids)
        own_scores    == [a \in account_ids |->
                             own_score_of(g, txns, loop_accounts, a)]
        flag_details  == [a \in account_ids |->
                             flags_of(g, txns, loop_accounts, a)]
    IN  [acc \in account_ids |->
            LET contamination ==
                    contamination_in_order(own_scores,
                                           nbrs(g, account_ids, acc), ord)
                final == final_of(own_scores[acc], contamination)
            IN  [ own_score      |-> own_scores[acc],
                  contamination  |-> contamination,
                  final_score    |-> final,
                  classification |-> classify(final),
                  flags          |-> flag_details[acc],
                  in_loop        |-> acc \in loop_accounts ]]

InitRerun ==
    /\ pc = "start"
    /\ accounts \in {1..k : k \in 0..NumIds}
    /\ \E i, j, k \in 0..MaxRows :
          /\ i + j + k <= MaxRows
          /\ identifiers \in SeqsOfLen(IdentifierRows, i)
          /\ touchpoints \in SeqsOfLen(TouchpointRows, j)
          /\ transactions \in SeqsOfLen(TransactionRows, k)
    /\ G = EmptyGraph
    /\ results = << >>
    /\ score = 0
    /\ label = ""
    /\ order = << >>
    /\ first_run = << >>
    /\ scorer = << >>

\* full_pipeline: build_graph, then compute_scores, on the same snapshot;
\* the second call keeps the first call's score table for comparison
FullPipeline ==
    /\ pc \in {"start", "once"}
    /\ \E ord \in Perms(accounts) :
          /\ G' = build_graph(accounts, identifiers, touchpoints, transactions)
          /\ results' = compute_scores_in_order(G', accounts, transactions, ord)
          /\ order' = ord
    /\ first_run' = IF pc = "start" THEN first_run
                    ELSE [order |-> order, scores |-> results]
    /\ pc' = IF pc = "start" THEN "once" ELSE "twice"
    /\ UNCHANGED <<accounts, identifiers, touchpoints, transactions,
                   score, label, scorer>>

NextRerun == FullPipeline

SpecRerun == InitRerun /\ [][NextRerun]_vars

----------------------------------------------------------------------------
(* The pipeline run on a snapshot and again on the same records in another *)
(* row order                                                               *)

\* the rows of a table in the order perm
Reordered(rows, perm) == [n \in DOMAIN rows |-> rows[perm[n]]]

PipelineFirst ==
    /\ pc = "start"
    /\ G' = build_graph(accounts, identifiers, touchpoints, transactions)
    /\ results' = compute_scores(G', accounts, transactions)
    /\ pc' = "once"
    /\ UNCHANGED <<accounts, identifiers, touchpoints, transactions,
                   score, label, order, first_run, scorer>>

PipelineReordered ==
    /\ pc = "once"
    /\ \E pi \in Perms(DOMAIN identifiers), pt \in Perms(DOMAIN touchpoints),
          px \in Perms(DOMAIN transactions) :
          /\ identifiers' = Reordered(identifiers, pi)
          /\ touchpoints' = Reordered(touchpoints, pt)
          /\ transactions' = Reordered(transactions, px)
    /\ first_run' = [G |-> G, scores |-> results]
    /\ G' = build_graph(accounts, identifiers', touchpoints', transactions')
    /\ results' = compute_scores(G', accounts, transactions')
    /\ pc' = "twice"
    /\ UNCHANGED <<accounts, score, label, order, scorer>>

NextReorder == PipelineFirst \/ PipelineReordered

SpecReorder == InitRerun /\ [][NextReorder]_vars

----------------------------------------------------------------------------
(* compute_scores called on its own, on any graph and tables *)

\* the graphs over the node set ns with at most MaxEdges edges
Graphs(accs, ns) ==
    {[nodes |-> [n \in ns |-> IF n \in accs THEN "account" ELSE ""],
      edges |-> es] :
        es \in UNION {SeqsOfLen({Edge(a, b, t, 0) :
                                    a \in ns, b \in ns,
                                    t \in {"shared_ip", "shared_device",
                                           "shared_touchpoint", "money_flow"}},
                                n) : n \in 0..MaxEdges}}

InitGraphs ==
    /\ pc = "start"
    /\ accounts \in {1..k : k \in 0..NumIds}
    /\ identifiers = << >>
    /\ touchpoints = << >>
    /\ transactions \in SeqsOfLen(TransactionRows, 0)
                        \cup SeqsOfLen(TransactionRows, 1)
    /\ G \in UNION {Graphs(accounts, ns) : ns \in SUBSET Ids}
    /\ results = << >>
    /\ score = 0
    /\ label = ""
    /\ order = << >>
    /\ first_run = << >>
    /\ scorer = << >>

\* the lookups write to a graph that grows on access
ComputeScoresAddsNodes ==
    /\ pc = "start"
    /\ G' = [G EXCEPT !.nodes = [n \in DOMAIN G.nodes \cup accounts |->
                                    IF n \in accounts THEN "account" ELSE ""]]
    /\ results' = compute_scores(G, accounts, transactions)
    /\ pc' = "scored"
    /\ UNCHANGED <<accounts, identifiers, touchpoints, transactions,
                   score, label, order, first_run, scorer>>

\* compute_scores(G, dfs): G.edges(acc), G.in_edges(acc) and G.out_edges(acc)
\* of an id that is no node are empty; nd = G.nodes[acc] raises KeyError
\* and no table is returned
ComputeScoresOn ==
    /\ pc = "start"
    /\ IF accounts \subseteq DOMAIN G.nodes
          THEN /\ results' = compute_scores(G, accounts, transactions)
               /\ pc' = "scored"
          ELSE /\ results' = results
               /\ pc' = "raised"
    /\ UNCHANGED <<accounts, identifiers, touchpoints, transactions, G,
                   score, label, order, first_run, scorer>>

NextGraphs == ComputeScoresOn

SpecGraphs == InitGraphs /\ [][NextGraphs]_vars

----------------------------------------------------------------------------
(* The script Risk_scorer.py and the engine on the same tables *)

\* The own scores and sums of 6 own scores for which the double
\* own + 0.30 * (sum / 6) lies just below the half that the exact sum lies
\* on; an account with a neighbour has an own score of 15 or more.
SumFallsBelow(own, sum, n) ==
    /\ n = 6
    /\ <<own, sum>> \in {<<15, 775>>, <<20, 775>>, <<25, 775>>, <<15, 835>>,
                         <<20, 835>>, <<15, 895>>, <<15, 955>>}

\* final_scores[acc] = round(own_scores[acc] + contamination, 1), in tenths,
\* contamination being CONTAMINATION_WEIGHT * (sum / len(nbrs)) unrounded
script_final_of(own_scores, acc, ns) ==
    IF ns = {} THEN 10 * own_scores[acc]
    ELSE LET n   == Cardinality(ns)
             sum == SumOver(own_scores, ns)
             num == 10 * n * own_scores[acc] + CONTAMINATION_WEIGHT * sum
         IN  IF SumFallsBelow(own_scores[acc], sum, n) THEN num \div n
             ELSE round1(num, n)

\* the script from loop detection to classification, on its own graph
risk_scorer(g, accs, txns) ==
    LET account_ids   == accs
        loop_accounts == _detect_loops(g, account_ids)
        own_scores    == [a \in account_ids |->
                             own_score_of(g, txns, loop_accounts, a)]
        final_scores  == [a \in account_ids |->
                             script_final_of(own_scores, a,
                                             nbrs(g, account_ids, a))]
    IN  [ own_scores      |-> own_scores,
          final_scores    |-> final_scores,
          classifications |-> [a \in account_ids |-> classify(final_scores[a])] ]

ScorerIds == 1..NumScorerIds

\* m accounts on one IP address, at most one pair of accounts on one device
\* and at most one transfer between two accounts
InitScorers ==
    /\ pc = "start"
    /\ accounts = ScorerIds
    /\ \E m \in 0..(NumScorerIds - 1) : \E d1, d2 \in ScorerIds :
          /\ d1 <= d2
          /\ identifiers =
                [i \in 1..m |-> [account_id |-> i,
                                 identifier_type |-> "IP Address",
                                 identifier_value |-> "10.0.0.5"]]
                \o (IF d1 = d2 THEN << >>
                    ELSE <<[account_id |-> d1,
                            identifier_type |-> "Device MAC",
                            identifier_value |-> "MAC:EE:01"],
                           [account_id |-> d2,
                            identifier_type |-> "Device MAC",
                            identifier_value |-> "MAC:EE:01"]>>)
    /\ touchpoints = << >>
    /\ \E a, b \in ScorerIds :
          transactions = IF a = b THEN << >>
                         ELSE <<[sender |-> a, receiver |-> b]>>
    /\ G = EmptyGraph
    /\ results = << >>
    /\ score = 0
    /\ label = ""
    /\ order = << >>
    /\ first_run = << >>
    /\ scorer = << >>

\* Risk_scorer.py, run as a script on the tables
RiskScorer ==
    /\ pc = "start"
    /\ scorer' = risk_scorer(build_graph(accounts, identifiers, touchpoints,
                                         transactions),
                             accounts, transactions)
    /\ pc' = "scripted"
    /\ UNCHANGED <<accounts, identifiers, touchpoints, transactions, G,
                   results, score, label, order, first_run>>

\* fraud_engine.full_pipeline on the same tables
EnginePipeline ==
    /\ pc = "scripted"
    /\ G' = build_graph(accounts, identifiers, touchpoints, transactions)
    /\ results' = compute_scores(G', accounts, transactions)
    /\ pc' = "compared"
    /\ UNCHANGED <<accounts, identifiers, touchpoints, transactions,
                   score, label, order, first_run, scorer>>

NextScorers == RiskScorer \/ EnginePipeline

SpecScorers == InitScorers /\ [][NextScorers]_vars

----------------------------------------------------------------------------
(* The pipeline on ring snapshots: the reference dataset, and the three    *)
(* ring designs of its WATCH, SUSPICIOUS and BLOCK accounts laid over the  *)
(* accounts 1..NumRing in every arrangement                                *)

RingIds == 1..NumRing

IdentifierRow(a, t, v) ==
    [account_id |-> a, identifier_type |-> t, identifier_value |-> v]

TouchpointRow(a, tp) == [account_id |-> a, touchpoint_id |-> tp]

TransactionRow(s, r) == [sender |-> s, receiver |-> r]

Snapshot(accs, idents, tps, txns) ==
    [accounts |-> accs, identifiers |-> idents, touchpoints |-> tps,
     transactions |-> txns]

ReferenceSnapshot ==
    Snapshot(accounts_data, identifiers_data, touchpoints_data,
             transactions_data)

\* ACC_F1..F3: three accounts at one touchpoint, money flowing one way
WatchRings ==
    {Snapshot(RingIds, << >>,
              <<TouchpointRow(p[1], tp), TouchpointRow(p[2], tp),
                TouchpointRow(p[3], tp)>>,
              IF fwd THEN <<TransactionRow(p[1], p[2]), TransactionRow(p[2], p[3])>>
                     ELSE <<TransactionRow(p[2], p[3]), TransactionRow(p[1], p[2])>>) :
        p \in Perms(RingIds), tp \in Range(AllTouchpointIds), fwd \in BOOLEAN}

\* ACC_G1..G3: three accounts on one IP, money flowing both ways between
\* the first and the second and between the second and the third
SuspiciousRings ==
    {Snapshot(RingIds,
              <<IdentifierRow(p[1], "IP Address", ip),
                IdentifierRow(p[2], "IP Address", ip),
                IdentifierRow(p[3], "IP Address", ip)>>,
              << >>,
              <<TransactionRow(p[1], p[2]), TransactionRow(p[2], p[1]),
                TransactionRow(p[2], p[3]), TransactionRow(p[3], p[2])>>) :
        p \in Perms(RingIds), ip \in {"10.2.0.99", "10.0.0.5"}}

\* the value the n-th sharing pair of a block ring shares
PairValue(t, n) ==
    IF t = "IP Address" THEN <<"192.168.1.1", "10.0.0.5">>[n]
    ELSE IF t = "Device MAC" THEN <<"MAC:EE:01", "MAC:EE:03">>[n]
    ELSE <<"IMEI-7766", "IMEI-5544">>[n]

\* ACC_A1..A4, B1..B4, C1..C4: four accounts on a closed transfer cycle,
\* two pairs of them (neighbours on the cycle, or opposite) sharing an IP
\* or a device each, the first pair at one touchpoint or not
BlockRings ==
    {Snapshot(RingIds,
              <<IdentifierRow(p[1], t1, PairValue(t1, 1)),
                IdentifierRow(IF adj THEN p[2] ELSE p[3], t1, PairValue(t1, 1)),
                IdentifierRow(IF adj THEN p[3] ELSE p[2], t2, PairValue(t2, 2)),
                IdentifierRow(p[4], t2, PairValue(t2, 2))>>,
              IF tp THEN <<TouchpointRow(p[1], "ATM_MUM"),
                           TouchpointRow(p[2], "ATM_MUM")>>
                    ELSE << >>,
              <<TransactionRow(p[1], p[2]), TransactionRow(p[2], p[3]),
                TransactionRow(p[3], p[4]), TransactionRow(p[4], p[1])>>) :
        p \in Perms(RingIds), t1 \in IdentifierTypes, t2 \in IdentifierTypes,
        adj \in BOOLEAN, tp \in BOOLEAN}

InitRings ==
    /\ pc = "start"
    /\ \E snap \in {ReferenceSnapshot} \cup WatchRings
                    \cup SuspiciousRings \cup BlockRings :
          /\ accounts = snap.accounts
          /\ identifiers = snap.identifiers
          /\ touchpoints = snap.touchpoints
          /\ transactions = snap.transactions
    /\ G = EmptyGraph
    /\ results = << >>
    /\ score = 0
    /\ label = ""
    /\ order = << >>
    /\ first_run = << >>
    /\ scorer = << >>

SpecRings == InitRings /\ [][Next]_vars

----------------------------------------------------------------------------
(* Properties of the score table *)

Scored == pc = "scored"

RECURSIVE SumWeights(_)
SumWeights(fl) == IF fl = << >> THEN 0 ELSE Head(fl).weight + SumWeights(Tail(fl))

HasFlag(a, name) == \E i \in DOMAIN results[a].flags : results[a].flags[i].flag = name

FlagWeightIs(a, name, w) ==
    \A i \in DOMAIN results[a].flags :
        results[a].flags[i].flag = name => results[a].flags[i].weight = w

\* C1: in every score table, own_score of every account is the sum of the
\* weights of its flags list, no flag kind occurs twice in the list, and
\* own_score lies in 0..190.
C1_OwnScoreIsFlagSum ==
    Scored =>
        \A a \in DOMAIN results :
            /\ results[a].own_score = SumWeights(results[a].flags)
            /\ \A i, j \in DOMAIN results[a].flags :
                  results[a].flags[i].flag = results[a].flags[j].flag => i = j
            /\ results[a].own_score \in 0..190

\* an account with three or more fired flags
C1_Witness ==
    /\ Scored
    /\ \E a \in DOMAIN results :
          Len(results[a].flags) >= 3 /\ results[a].own_score >= 55

----------------------------------------------------------------------------
(* The rule table, read off the graph and the transaction table *)

GraphEdges == Range(G.edges)

Touches(a, t) == \E e \in GraphEdges : e.edge_type = t /\ (e.u = a \/ e.v = a)

Receives(a) == \E e \in GraphEdges : e.edge_type = "money_flow" /\ e.v = a

Sends(a) == \E e \in GraphEdges : e.edge_type = "money_flow" /\ e.u = a

SentTxns(a) == {k \in DOMAIN transactions : transactions[k].sender = a}

Fires(a, name, w, cond) ==
    /\ HasFlag(a, name) <=> cond
    /\ FlagWeightIs(a, name, w)

Weigh(cond, w) == IF cond THEN w ELSE 0

\* C2: each of the seven flags fires exactly when its rule-table condition
\* holds, with the table's weight; high velocity needs at least 3 sent
\* transactions; own_score depends only on which conditions hold, not on
\* how many edges satisfy them.
C2_FlagsFollowRuleTable ==
    Scored =>
        \A a \in DOMAIN results :
            /\ Fires(a, "Shared Device / IMEI", 30, Touches(a, "shared_device"))
            /\ Fires(a, "Shared IP Address", 25, Touches(a, "shared_ip"))
            /\ Fires(a, "Shared ATM / Portal", 15, Touches(a, "shared_touchpoint"))
            /\ Fires(a, "Received money", 20, Receives(a))
            /\ Fires(a, "Sent money", 20, Sends(a))
            /\ Fires(a, "Transaction Loop Detected", 40,
                     a \in _detect_loops(G, accounts))
            /\ Fires(a, "High Velocity Sending", 20, Cardinality(SentTxns(a)) >= 3)
            /\ results[a].own_score =
                  Weigh(Touches(a, "shared_device"), 30)
                  + Weigh(Touches(a, "shared_ip"), 25)
                  + Weigh(Touches(a, "shared_touchpoint"), 15)
                  + Weigh(Receives(a), 20)
                  + Weigh(Sends(a), 20)
                  + Weigh(a \in _detect_loops(G, accounts), 40)
                  + Weigh(Cardinality(SentTxns(a)) >= 3, 20)

\* an account that sends exactly 3 transactions: high velocity fires, and
\* the three money_flow edges fire one Sent-money flag of weight 20
C2_Witness ==
    /\ Scored
    /\ \E a \in DOMAIN results :
          /\ Cardinality(SentTxns(a)) = 3
          /\ HasFlag(a, "High Velocity Sending")
          /\ results[a].flags =
                <<Flag("Sent money", 3, 20), Flag("High Velocity Sending", 0, 20)>>
          /\ results[a].own_score = 40

----------------------------------------------------------------------------
(* Contamination *)

\* the accounts that are a successor or a predecessor of a
Neighbours(a) ==
    {b \in accounts :
        \E e \in GraphEdges : (e.u = a /\ e.v = b) \/ (e.u = b /\ e.v = a)}

RECURSIVE OwnSum(_)
OwnSum(S) ==
    IF S = {} THEN 0
    ELSE LET x == CHOOSE y \in S : TRUE
         IN  results[x].own_score + OwnSum(S \ {x})

\* c (tenths) is 0.30 * OwnSum(S) / |S| rounded to one decimal: the nearest
\* tenth, and the even one of the two when both are equally near
IsRoundedContamination(c, S) ==
    LET n == Cardinality(S)
        d == n * c - 3 * OwnSum(S)
    IN  /\ 2 * d <= n
        /\ -2 * d <= n
        /\ (2 * d = n \/ -2 * d = n) => c % 2 = 0

C4_ZeroContaminationIffNoNeighbours ==
    Scored =>
        \A a \in DOMAIN results :
            /\ results[a].contamination = 0 <=> Neighbours(a) = {}
            /\ Neighbours(a) # {} => results[a].contamination > 0

\* one account with another account as neighbour and one account without
\* neighbours in the same table
C4_Witness ==
    /\ Scored
    /\ \E a, b \in DOMAIN results :
          /\ Neighbours(a) \ {a} # {} /\ results[a].contamination > 0
          /\ Neighbours(b) = {} /\ results[b].contamination = 0

\* C5: final_score >= own_score for every account.
C5_FinalAtLeastOwn ==
    Scored =>
        \A a \in DOMAIN results :
            results[a].final_score >= 10 * results[a].own_score

\* an account whose final score exceeds its own score
C5_Witness ==
    /\ Scored
    /\ \E a \in DOMAIN results :
          results[a].final_score > 10 * results[a].own_score

----------------------------------------------------------------------------
(* classify *)

Returned == pc = "returned"

\* C6: classify is exact at the whole-number tier boundaries, and every
\* score of 91 or more, also above 9999, is BLOCK.
C6_IntegerBoundaries ==
    Returned =>
        /\ score = 300 => label = "CLEAN"
        /\ score = 310 => label = "WATCH"
        /\ score = 600 => label = "WATCH"
        /\ score = 610 => label = "SUSPICIOUS"
        /\ score = 900 => label = "SUSPICIOUS"
        /\ score = 910 => label = "BLOCK"
        /\ score >= 910 => label = "BLOCK"

\* a score above 9999 has been classified BLOCK
C6_Witness == Returned /\ score > 99990 /\ label = "BLOCK"

\* C7: a one-decimal score just past a tier's upper bound is classified
\* into the next tier up: 30.0 CLEAN, 30.1 WATCH, 90.0 SUSPICIOUS,
\* 90.1 BLOCK.
C7_JustPastBoundary ==
    Returned =>
        /\ score = 300 => label = "CLEAN"
        /\ score = 301 => label = "WATCH"
        /\ score = 900 => label = "SUSPICIOUS"
        /\ score = 901 => label = "BLOCK"

----------------------------------------------------------------------------
(* Loop detection *)

Money(x, y) ==
    \E e \in GraphEdges : e.edge_type = "money_flow" /\ e.u = x /\ e.v = y

AnyEdge(x, y) == \E e \in GraphEdges : e.u = x /\ e.v = y

\* a lies on a directed cycle of n distinct nodes of N whose steps all
\* satisfy Step
OnCycle(a, n, N, Step(_, _)) ==
    \E p \in [1..n -> N] :
        /\ p[1] = a
        /\ \A i, j \in 1..n : i # j => p[i] # p[j]
        /\ \A i \in 1..(n - 1) : Step(p[i], p[i + 1])
        /\ Step(p[n], p[1])

\* a lies on a money-flow cycle of 3 or more distinct accounts
OnLaunderingLoop(a) ==
    \E n \in 3..Cardinality(accounts) : OnCycle(a, n, accounts, Money)

\* C8: the loop-flagged accounts are exactly the accounts on a simple
\* directed money-flow cycle of 3 or more distinct accounts; in_loop and the
\* Transaction-loop flag say the same.
C8_LoopIffCycleOfThree ==
    Scored =>
        /\ _detect_loops(G, accounts) = {a \in accounts : OnLaunderingLoop(a)}
        /\ \A a \in DOMAIN results :
              /\ results[a].in_loop <=> OnLaunderingLoop(a)
              /\ HasFlag(a, "Transaction Loop Detected") <=> results[a].in_loop

\* a 3-cycle whose members are all flagged, beside a back-and-forth
C8_Witness ==
    /\ Scored
    /\ Cardinality(accounts) = 3
    /\ \A a \in accounts :
          results[a].in_loop /\ HasFlag(a, "Transaction Loop Detected")
    /\ \E a, b \in accounts : a # b /\ Money(a, b) /\ Money(b, a)

\* a back-and-forth between two accounts, neither of them flagged
C8_WitnessBackAndForth ==
    /\ Scored
    /\ \E a, b \in accounts :
          /\ a # b /\ Money(a, b) /\ Money(b, a)
          /\ ~results[a].in_loop /\ ~results[b].in_loop

\* C9: only money_flow edges between accounts make a loop: an account is
\* loop-flagged only if it lies on a cycle of 3 or more accounts joined by
\* money_flow edges; a cycle closed by a shared_* edge or passing through a
\* node that is not an account flags nobody.
C9_OnlyAccountMoneyEdges ==
    Scored =>
        /\ (\A a \in accounts : ~OnLaunderingLoop(a)) =>
              \A a \in DOMAIN results :
                  ~results[a].in_loop /\ ~HasFlag(a, "Transaction Loop Detected")
        /\ _detect_loops(G, accounts) \subseteq
              {a \in accounts : OnLaunderingLoop(a)}

\* three accounts sharing one identifier or touchpoint: the shared edges
\* close a cycle through the three of them, and nobody is loop-flagged
C9_Witness ==
    /\ Scored
    /\ Cardinality(accounts) = 3
    /\ \A a \in accounts : OnCycle(a, 3, accounts, AnyEdge)
    /\ \A a \in DOMAIN results : ~results[a].in_loop

\* a money_flow cycle of two accounts and a node that is not an account:
\* neither account is loop-flagged
C9_WitnessNonAccount ==
    /\ Scored
    /\ Cardinality(accounts) = 2
    /\ \A a \in accounts :
          /\ OnCycle(a, 3, DOMAIN G.nodes, Money)
          /\ ~results[a].in_loop

----------------------------------------------------------------------------
(* Graph construction *)

Built == pc \in {"built", "scored"}

SharedTypes == {"shared_ip", "shared_device", "shared_touchpoint"}

EdgeCount(a, b, t) ==
    Cardinality({i \in DOMAIN G.edges :
                    G.edges[i].u = a /\ G.edges[i].v = b
                    /\ G.edges[i].edge_type = t})

\* C10: every shared_* edge is reciprocated: as many edges of each shared
\* type run from A to B as from B to A.
C10_SharedEdgesReciprocated ==
    Built =>
        \A t \in SharedTypes : \A a, b \in DOMAIN G.nodes :
            EdgeCount(a, b, t) = EdgeCount(b, a, t)

\* two accounts joined by two parallel shared edges of one type each way
C10_Witness ==
    /\ Built
    /\ \E t \in SharedTypes : \E a, b \in accounts :
          a # b /\ EdgeCount(a, b, t) = 2 /\ EdgeCount(b, a, t) = 2

TxnCount(s, r) ==
    Cardinality({k \in DOMAIN transactions :
                    transactions[k].sender = s /\ transactions[k].receiver = r})

\* C11: the money_flow edges correspond one-to-one with the transactions:
\* for every ordered pair (s, r) as many money_flow edges run from s to r as
\* there are transactions with sender s and receiver r, so a transaction
\* s -> r adds no edge r -> s.
C11_MoneyFlowOnePerTransaction ==
    Built =>
        /\ \A s, r \in Ids : EdgeCount(s, r, "money_flow") = TxnCount(s, r)
        /\ Cardinality({i \in DOMAIN G.edges :
                           G.edges[i].edge_type = "money_flow"})
              = Len(transactions)

\* two transactions from s to r and none back: two parallel edges s -> r
\* and no edge r -> s
C11_Witness ==
    /\ Built
    /\ \E s, r \in accounts :
          /\ s # r
          /\ TxnCount(s, r) = 2 /\ TxnCount(r, s) = 0
          /\ EdgeCount(s, r, "money_flow") = 2
          /\ EdgeCount(r, s, "money_flow") = 0

----------------------------------------------------------------------------
(* The node set *)

AccountNodes == {n \in DOMAIN G.nodes : G.nodes[n] = "account"}

OtherNodes == {n \in DOMAIN G.nodes : G.nodes[n] # "account"}

AssignedIdentifierValues ==
    {identifiers[i].identifier_value : i \in DOMAIN identifiers}

AssignedTouchpointIds == {touchpoints[i].touchpoint_id : i \in DOMAIN touchpoints}

\* C12: the node set of the graph is exactly one node per account, plus one
\* node per distinct identifier value of the identifier assignments, plus
\* one node per distinct touchpoint id of the touchpoint assignments.
C12_NodePerAccountIdentifierTouchpoint ==
    Built =>
        /\ AccountNodes = accounts
        /\ Cardinality(OtherNodes) =
              Cardinality(AssignedIdentifierValues)
              + Cardinality(AssignedTouchpointIds)

ReferencedIds ==
    {identifiers[i].account_id : i \in DOMAIN identifiers}
    \cup {touchpoints[i].account_id : i \in DOMAIN touchpoints}
    \cup {transactions[i].sender : i \in DOMAIN transactions}
    \cup {transactions[i].receiver : i \in DOMAIN transactions}

\* C13: when an identifier assignment, a touchpoint assignment or a
\* transaction names an account id that is not in the account table, the
\* pipeline stops with a validation error and produces neither a graph nor
\* a score table; the graph never holds a node for an id that is absent
\* from the account table.
C13_DanglingReferenceRejected ==
    /\ ~(ReferencedIds \subseteq accounts) =>
          pc = "start" /\ G = EmptyGraph /\ results = << >>
    /\ Built => DOMAIN G.nodes \subseteq accounts

----------------------------------------------------------------------------
(* Self-referential transactions *)

SendsToOther(a) ==
    \E k \in DOMAIN transactions :
        transactions[k].sender = a /\ transactions[k].receiver # a

ReceivesFromOther(a) ==
    \E k \in DOMAIN transactions :
        transactions[k].receiver = a /\ transactions[k].sender # a

\* a is named by no assignment row and by no transaction with another party
OnlySelfTransfers(a) ==
    /\ \A i \in DOMAIN identifiers : identifiers[i].account_id # a
    /\ \A i \in DOMAIN touchpoints : touchpoints[i].account_id # a
    /\ ~SendsToOther(a) /\ ~ReceivesFromOther(a)

\* C14: a transaction whose sender is its receiver is rejected: it adds no
\* money_flow edge, it fires neither the Sent nor the Received flag of the
\* account, and it does not make the account its own contamination
\* neighbour.
C14_SelfTransferRejected ==
    /\ Built => \A a \in accounts : EdgeCount(a, a, "money_flow") = 0
    /\ Scored =>
          \A a \in DOMAIN results :
              /\ HasFlag(a, "Sent money") => SendsToOther(a)
              /\ HasFlag(a, "Received money") => ReceivesFromOther(a)
              /\ OnlySelfTransfers(a) =>
                    /\ results[a].contamination = 0
                    /\ results[a].final_score = 0

----------------------------------------------------------------------------
(* Empty input *)

----------------------------------------------------------------------------
(* Determinism *)

RanTwice == pc = "twice"

\* C16: two runs of the full pipeline on the same input snapshot give the
\* same score table: the same set of accounts and, for every account, the
\* same own_score, contamination, final_score, classification, flags list
\* and in_loop value.
C16_SameTableTwice ==
    RanTwice =>
        /\ DOMAIN results = DOMAIN first_run.scores
        /\ \A a \in DOMAIN results :
              /\ results[a].own_score = first_run.scores[a].own_score
              /\ results[a].contamination = first_run.scores[a].contamination
              /\ results[a].final_score = first_run.scores[a].final_score
              /\ results[a].classification = first_run.scores[a].classification
              /\ results[a].flags = first_run.scores[a].flags
              /\ results[a].in_loop = first_run.scores[a].in_loop

\* the two runs iterated the accounts in different orders, and an account
\* has two neighbours with different own scores
C16_Witness ==
    /\ RanTwice
    /\ order # first_run.order
    /\ \E a \in accounts : \E b, c \in Neighbours(a) \ {a} :
          /\ results[b].own_score # results[c].own_score
          /\ order = <<b, c, a>>
          /\ first_run.order = <<c, b, a>>

----------------------------------------------------------------------------
(* Scenarios *)

\* no identifier value of an account of S is assigned by a second row
NoSharedIdentifier(S) ==
    \A i, j \in DOMAIN identifiers :
        (i # j /\ identifiers[i].account_id \in S) =>
            identifiers[i].identifier_value # identifiers[j].identifier_value

\* the accounts of S, and nobody else, are assigned one touchpoint, once
\* each, and no other touchpoint
ShareOneTouchpoint(S) ==
    \E tp \in AssignedTouchpointIds :
        /\ \A i \in DOMAIN touchpoints :
              touchpoints[i].account_id \in S <=> touchpoints[i].touchpoint_id = tp
        /\ \A a \in S :
              Cardinality({i \in DOMAIN touchpoints :
                              touchpoints[i].account_id = a}) = 1

\* every transaction that names an account of S is one of the transfers T,
\* and every transfer of T was made exactly once
ExactlyTheTransfers(S, T) ==
    /\ \A k \in DOMAIN transactions :
          (transactions[k].sender \in S \/ transactions[k].receiver \in S) =>
              <<transactions[k].sender, transactions[k].receiver>> \in T
    /\ \A t \in T : TxnCount(t[1], t[2]) = 1

CircumstantialRing(X, Y, Z) ==
    /\ X # Y /\ Y # Z /\ X # Z
    /\ ShareOneTouchpoint({X, Y, Z})
    /\ NoSharedIdentifier({X, Y, Z})
    /\ ExactlyTheTransfers({X, Y, Z}, {<<X, Y>>, <<Y, Z>>})

ShareOneIp(S) ==
    \E ip \in AssignedIdentifierValues :
        /\ \A i \in DOMAIN identifiers :
              /\ identifiers[i].account_id \in S <=>
                    identifiers[i].identifier_value = ip
              /\ identifiers[i].account_id \in S => IsIpRow(identifiers[i])
        /\ \A a \in S :
              Cardinality({i \in DOMAIN identifiers :
                              identifiers[i].account_id = a}) = 1

NoTouchpoint(S) ==
    \A i \in DOMAIN touchpoints : touchpoints[i].account_id \notin S

BidirectionalRing(G1, G2, G3) ==
    /\ G1 # G2 /\ G2 # G3 /\ G1 # G3
    /\ ShareOneIp({G1, G2, G3})
    /\ NoTouchpoint({G1, G2, G3})
    /\ ExactlyTheTransfers({G1, G2, G3},
                           {<<G1, G2>>, <<G2, G1>>, <<G2, G3>>, <<G3, G2>>})

\* C18 (bidirectional, no loop): three accounts G1, G2, G3 that share one
\* IP and have the transfers G1 -> G2, G2 -> G1, G2 -> G3, G3 -> G2 and no
\* other record: each has own_score 65, no loop flag, contamination 19.5,
\* final_score 84.5 and classification SUSPICIOUS.
C18_BidirectionalNoLoop ==
    Scored =>
        \A G1, G2, G3 \in accounts :
            BidirectionalRing(G1, G2, G3) =>
                \A a \in {G1, G2, G3} :
                    /\ results[a].own_score = 65
                    /\ ~results[a].in_loop
                    /\ ~HasFlag(a, "Transaction Loop Detected")
                    /\ results[a].contamination = 195
                    /\ results[a].final_score = 845
                    /\ results[a].classification = "SUSPICIOUS"

\* a scored bidirectional ring whose three accounts carry the shared-IP,
\* the Received and the Sent flag
C18_Witness ==
    /\ Scored
    /\ \E G1, G2, G3 \in accounts :
          /\ BidirectionalRing(G1, G2, G3)
          /\ \A a \in {G1, G2, G3} :
                /\ HasFlag(a, "Shared IP Address")
                /\ HasFlag(a, "Received money") /\ HasFlag(a, "Sent money")
                /\ results[a].classification = "SUSPICIOUS"

\* x and y are assigned the same IP address, or the same device or IMEI
SharesIdentifier(x, y) ==
    \E i, j \in DOMAIN identifiers :
        /\ identifiers[i].account_id = x /\ identifiers[j].account_id = y
        /\ identifiers[i].identifier_value = identifiers[j].identifier_value
        /\ \/ IsIpRow(identifiers[i]) /\ IsIpRow(identifiers[j])
           \/ IsDeviceRow(identifiers[i]) /\ IsDeviceRow(identifiers[j])

\* a, b, c, d are four accounts on a closed cycle of transfers, each
\* sharing an IP or a device with another of the four
BlockRing(a, b, c, d) ==
    /\ Cardinality({a, b, c, d}) = 4
    /\ TxnCount(a, b) > 0 /\ TxnCount(b, c) > 0
    /\ TxnCount(c, d) > 0 /\ TxnCount(d, a) > 0
    /\ \A x \in {a, b, c, d} :
          \E y \in {a, b, c, d} \ {x} : SharesIdentifier(x, y)

\* C19 (full block ring): four accounts joined by a closed 4-cycle of
\* transfers, each sharing an IP or a device with a ring-mate: every one of
\* the four is loop-flagged, has own_score >= 105 and is classified BLOCK.
C19_FullBlockRing ==
    Scored =>
        \A a, b, c, d \in accounts :
            BlockRing(a, b, c, d) =>
                \A x \in {a, b, c, d} :
                    /\ results[x].in_loop
                    /\ HasFlag(x, "Transaction Loop Detected")
                    /\ results[x].own_score >= 105
                    /\ results[x].classification = "BLOCK"

\* a scored block ring in which a member that shares only an IP has the
\* least own score the scenario allows
C19_Witness ==
    /\ Scored
    /\ \E a, b, c, d \in accounts :
          /\ BlockRing(a, b, c, d)
          /\ results[a].own_score = 105
          /\ results[c].own_score > 105
          /\ \A x \in {a, b, c, d} : results[x].classification = "BLOCK"

----------------------------------------------------------------------------
(* The reference dataset *)

IsReferenceDataset ==
    /\ accounts = accounts_data
    /\ identifiers = identifiers_data
    /\ touchpoints = touchpoints_data
    /\ transactions = transactions_data

TierIs(S, tier) == \A a \in S : results[a].classification = tier

\* C20: on the reference dataset every account lands in the tier its design
\* names: ACC_E1..E3 are CLEAN with final_score 0, ACC_F1..F3 are all WATCH,
\* ACC_G1..G3 are all SUSPICIOUS, and the loop-ring accounts ACC_A1..A4,
\* ACC_B1..B4 and ACC_C1..C4 are all BLOCK.
C20_ReferenceTiers ==
    (Scored /\ IsReferenceDataset) =>
        /\ TierIs({ACC_E1, ACC_E2, ACC_E3}, "CLEAN")
        /\ \A a \in {ACC_E1, ACC_E2, ACC_E3} : results[a].final_score = 0
        /\ TierIs({ACC_F1, ACC_F2, ACC_F3}, "WATCH")
        /\ TierIs({ACC_G1, ACC_G2, ACC_G3}, "SUSPICIOUS")
        /\ TierIs({ACC_A1, ACC_A2, ACC_A3, ACC_A4}, "BLOCK")
        /\ TierIs({ACC_B1, ACC_B2, ACC_B3, ACC_B4}, "BLOCK")
        /\ TierIs({ACC_C1, ACC_C2, ACC_C3, ACC_C4}, "BLOCK")

----------------------------------------------------------------------------
(* Sharing groups *)

\* a and b are assigned one identifier value by two rows of the kind Kind
CoOccurOnIdentifier(a, b, Kind(_)) ==
    \E i, j \in DOMAIN identifiers :
        /\ identifiers[i].account_id = a /\ identifiers[j].account_id = b
        /\ identifiers[i].identifier_value = identifiers[j].identifier_value
        /\ Kind(identifiers[i]) /\ Kind(identifiers[j])

CoOccurOnTouchpoint(a, b) ==
    \E i, j \in DOMAIN touchpoints :
        /\ touchpoints[i].account_id = a /\ touchpoints[j].account_id = b
        /\ touchpoints[i].touchpoint_id = touchpoints[j].touchpoint_id

CoOccur(a, b, t) ==
    IF t = "shared_ip" THEN CoOccurOnIdentifier(a, b, IsIpRow)
    ELSE IF t = "shared_device" THEN CoOccurOnIdentifier(a, b, IsDeviceRow)
    ELSE CoOccurOnTouchpoint(a, b)

\* C21: every sharing group is expanded pairwise, not as a chain: any two
\* distinct accounts assigned one identifier value (touchpoint id) are
\* joined in both directions by an edge of the matching type (shared_ip for
\* IP rows, shared_device for device-MAC and IMEI rows, shared_touchpoint
\* for touchpoints), and no shared_* edge joins two accounts that co-occur
\* on no value of the matching kind.
C21_GroupsExpandedPairwise ==
    Built =>
        \A t \in SharedTypes : \A a, b \in Ids :
            a # b =>
                /\ CoOccur(a, b, t) =>
                      EdgeCount(a, b, t) > 0 /\ EdgeCount(b, a, t) > 0
                /\ EdgeCount(a, b, t) > 0 => CoOccur(a, b, t)

\* three accounts on one value: the first and the third row's accounts are
\* joined directly
C21_Witness ==
    /\ Built
    /\ Cardinality(accounts) = 3
    /\ \E t \in SharedTypes :
          /\ \A a, b \in accounts : a # b => EdgeCount(a, b, t) = 1
          /\ \/ /\ Len(touchpoints) = 3
                /\ EdgeCount(touchpoints[1].account_id,
                             touchpoints[3].account_id, t) = 1
             \/ /\ Len(identifiers) = 3
                /\ EdgeCount(identifiers[1].account_id,
                             identifiers[3].account_id, t) = 1

----------------------------------------------------------------------------
(* Row order *)

EdgeCountIn(g, a, b, t) ==
    Cardinality({i \in DOMAIN g.edges :
                    g.edges[i].u = a /\ g.edges[i].v = b
                    /\ g.edges[i].edge_type = t})

EdgeTypes == SharedTypes \cup {"money_flow"}

\* C22: the result does not depend on the order of the input records: for
\* any permutation of the rows of the identifier, touchpoint and
\* transaction tables build_graph yields the same multiset of (source,
\* destination, edge type) edges and the pipeline the same score table.
C22_RowOrderIrrelevant ==
    RanTwice =>
        /\ \A t \in EdgeTypes : \A a, b \in Ids :
              EdgeCountIn(G, a, b, t) = EdgeCountIn(first_run.G, a, b, t)
        /\ Len(G.edges) = Len(first_run.G.edges)
        /\ results = first_run.scores

\* the second run read a sharing group in another row order and inserted
\* the same edges in another order; the accounts carry flags
C22_Witness ==
    /\ RanTwice
    /\ Len(identifiers) + Len(touchpoints) >= 2
    /\ \E i \in DOMAIN G.edges :
          /\ G.edges[i].edge_type \in SharedTypes
          /\ G.edges[i] # first_run.G.edges[i]
          /\ G.edges[i].u # G.edges[i].v
    /\ \E a \in DOMAIN results : results[a].own_score > 0
    /\ results = first_run.scores

----------------------------------------------------------------------------
(* Inputs of compute_scores *)

Called == pc \in {"scored", "raised"}

\* C23: compute_scores leaves its inputs unchanged: whatever the graph and
\* the tables, the graph has the same nodes, the same edges and the same
\* attributes after the call as before it, no node is added for an id that
\* was looked up, and the tables are the same.
C23_ComputeScoresLeavesInputs ==
    [][Called' =>
          /\ G' = G
          /\ DOMAIN G'.nodes = DOMAIN G.nodes
          /\ accounts' = accounts
          /\ identifiers' = identifiers
          /\ touchpoints' = touchpoints
          /\ transactions' = transactions]_vars

\* a table was returned for a graph with edges of accounts and other
\* nodes, one account flagged
C23_Witness ==
    /\ Scored
    /\ accounts # {}
    /\ DOMAIN G.nodes \ accounts # {}
    /\ Len(G.edges) = MaxEdges
    /\ \E a \in DOMAIN results : results[a].own_score > 0

----------------------------------------------------------------------------
(* Processing order *)

Ran == pc \in {"once", "twice"}

Position(a) == CHOOSE i \in DOMAIN order : order[i] = a

\* C24: the accounts of a stage may be processed in any order with the same
\* result: the table of every processing order is the table of the staged
\* computation, an account is loop-flagged exactly when loop detection
\* found it, and contamination is computed from the neighbours' own_score
\* only, whether a neighbour was processed before the account or after it.
C24_AnyProcessingOrder ==
    Ran =>
        /\ results = compute_scores(G, accounts, transactions)
        /\ \A a \in DOMAIN results :
              /\ results[a].in_loop <=> HasFlag(a, "Transaction Loop Detected")
              /\ IF Neighbours(a) = {}
                    THEN results[a].contamination = 0
                    ELSE IsRoundedContamination(results[a].contamination,
                                                Neighbours(a))

\* an account processed after a neighbour whose final score exceeds its own
\* score, and before another neighbour
C24_Witness ==
    /\ Ran
    /\ \E a \in accounts : \E b, c \in Neighbours(a) \ {a} :
          /\ Position(b) < Position(a)
          /\ Position(a) < Position(c)
          /\ results[b].final_score > 10 * results[b].own_score
          /\ results[a].contamination > 0

----------------------------------------------------------------------------
(* Order of the tiers *)

TierRank(cl) ==
    CASE cl = "CLEAN" -> 0
      [] cl = "WATCH" -> 1
      [] cl = "SUSPICIOUS" -> 2
      [] cl = "BLOCK" -> 3

\* C25: classification is monotone in the final score over every score
\* table of the pipeline: an account with a final score at most another's
\* is in a tier at most the other's (CLEAN < WATCH < SUSPICIOUS < BLOCK),
\* and no account with a final score below 91 is classified BLOCK.
C25_ClassificationMonotone ==
    Scored =>
        /\ \A a, b \in DOMAIN results :
              results[a].final_score <= results[b].final_score =>
                  TierRank(results[a].classification)
                      <= TierRank(results[b].classification)
        /\ \A a \in DOMAIN results :
              results[a].final_score < 910 => results[a].classification # "BLOCK"

----------------------------------------------------------------------------
(* Repeated assignments *)

\* some other account is assigned a value (or touchpoint) of the kind of
\* the shared edges of type t that a is assigned
SharesWithOther(a, t) == \E b \in Ids \ {a} : CoOccur(a, b, t)

SharedFlagOf(t) ==
    CASE t = "shared_ip" -> "Shared IP Address"
      [] t = "shared_device" -> "Shared Device / IMEI"
      [] t = "shared_touchpoint" -> "Shared ATM / Portal"

\* C26: build_graph adds no shared edge from an account to itself, also
\* when an assignment of an account occurs more than once; a shared flag
\* fires for an account only if a different account is assigned the same
\* value, and no account is its own neighbour through a shared edge.
C26_NoSharedSelfEdge ==
    /\ Built =>
          \A t \in SharedTypes : \A a \in accounts : EdgeCount(a, a, t) = 0
    /\ Scored =>
          \A t \in SharedTypes : \A a \in DOMAIN results :
              HasFlag(a, SharedFlagOf(t)) => SharesWithOther(a, t)

----------------------------------------------------------------------------
(* Flags that imply one another *)

\* C27: the fired flags of every score table are consistent: an account
\* with the Transaction-loop flag has the Received-money and the Sent-money
\* flags too, so its own_score is at least 80, and an account with the
\* High-velocity flag has the Sent-money flag too.
C27_FlagsConsistent ==
    Scored =>
        \A a \in DOMAIN results :
            /\ HasFlag(a, "Transaction Loop Detected") =>
                  /\ HasFlag(a, "Received money")
                  /\ HasFlag(a, "Sent money")
                  /\ results[a].own_score >= 80
            /\ HasFlag(a, "High Velocity Sending") => HasFlag(a, "Sent money")

\* three accounts on a transfer loop, each with the three flags and an
\* own_score of exactly 80
C27_Witness ==
    /\ Scored
    /\ Cardinality(accounts) = 3
    /\ \A a \in accounts :
          /\ HasFlag(a, "Transaction Loop Detected")
          /\ HasFlag(a, "Received money")
          /\ HasFlag(a, "Sent money")
          /\ results[a].own_score = 80

\* a high-velocity sender that receives nothing and is on no loop
C27_WitnessVelocity ==
    /\ Scored
    /\ \E a \in DOMAIN results :
          /\ HasFlag(a, "High Velocity Sending")
          /\ HasFlag(a, "Sent money")
          /\ ~HasFlag(a, "Received money")
          /\ ~results[a].in_loop

----------------------------------------------------------------------------
(* The two scorers *)

Compared == pc = "compared"

\* C28: the two scorers agree: on the same four input tables the script
\* Risk_scorer.py and fraud_engine.compute_scores give every account the
\* same own_score, the same final_score and the same classification.
C28_ScorersAgree ==
    Compared =>
        \A a \in accounts :
            /\ results[a].own_score = scorer.own_scores[a]
            /\ results[a].final_score = scorer.final_scores[a]
            /\ results[a].classification = scorer.classifications[a]

====
